---- MODULE Spec2Model ----
(***************************************************************************)
(* Layout state and drag sessions of the problem view.                     *)
(*                                                                         *)
(* ProblemViewPage owns the horizontal split (leftWidthPercentage,         *)
(* isResizing, startResizing); SubmitViewFrame, rendered in sidebar mode   *)
(* inside the page, owns the bottom panel (bottomPanelHeight,              *)
(* isBottomCollapsed, isResizingBottom, startResizingBottom).  Both        *)
(* resizers register their move and end handlers on the window.  A window  *)
(* event is dispatched to the registered handlers one after the other, in  *)
(* registration order; each handler invocation is one step of the model.   *)
(*                                                                         *)
(* Numbers: pointer coordinates and container bounds are integers, the     *)
(* percentage computed from them is kept as an exact fraction, and the     *)
(* three non-finite results of a JavaScript division are kept as such.     *)
(***************************************************************************)
EXTENDS Integers, Sequences, FiniteSets, TLC

\* ------------------------------------------------------------------ bounds
\* Number of drag sessions (mouse-downs on a resizer) a behaviour may start.
MaxStarts == 2

\* Pointer X coordinates delivered with a mouse-move.
ClientXs == {0, 20, 500, 1000}

\* Pointer Y coordinates delivered with a mouse-move.
ClientYs == {100, 400}

\* Pointer Y coordinates delivered with a mouse-down on the bottom resizer.
StartYs == {300, 580}

\* Bounding boxes the split container can report (left, width).
ContainerBounds ==
    { [left |-> 0, width |-> 1000],
      [left |-> 10, width |-> 500],
      [left |-> 20, width |-> 0] }

\* ------------------------------------------------------- program constants
DefaultLeftWidth == 50
DefaultBottomHeight == 120
CollapsedBottomHeight == 30
MaxBottomHeight == 600
LeftCollapseThreshold == 2
RightCollapseThreshold == 98
SubmitTabIndex == 0
SubmissionsTabIndex == 1

\* --------------------------------------------------------- JavaScript numbers
Abs(i) == IF i < 0 THEN -i ELSE i

RECURSIVE GCD(_, _)
GCD(a, b) == IF b = 0 THEN a ELSE GCD(b, a % b)

\* The finite number n/d (d > 0), in lowest terms.
Num(n, d) ==
    LET g == GCD(Abs(n), d)
    IN  [k |-> "num", n |-> n \div g, d |-> d \div g]

NaN == [k |-> "NaN", n |-> 0, d |-> 1]
PosInf == [k |-> "+Inf", n |-> 0, d |-> 1]
NegInf == [k |-> "-Inf", n |-> 0, d |-> 1]

\* a / b for a finite a and an integer b >= 0 (a width): IEEE division does
\* not fault on a zero divisor, it yields NaN or an infinity.
JsDiv(a, b) ==
    IF b = 0
    THEN IF a = 0 THEN NaN ELSE IF a > 0 THEN PosInf ELSE NegInf
    ELSE Num(a, b)

\* v * c for an integer c > 0.
JsTimes(v, c) == IF v.k = "num" THEN Num(v.n * c, v.d) ELSE v

\* v >= c, v <= c, v < c, v > c for an integer c; every comparison with NaN
\* is false.
JsGe(v, c) == \/ v.k = "+Inf"
              \/ v.k = "num" /\ v.n >= c * v.d
JsLe(v, c) == \/ v.k = "-Inf"
              \/ v.k = "num" /\ v.n <= c * v.d
JsLt(v, c) == \/ v.k = "-Inf"
              \/ v.k = "num" /\ v.n < c * v.d
JsGt(v, c) == \/ v.k = "+Inf"
              \/ v.k = "num" /\ v.n > c * v.d

\* ------------------------------------------------------------------- state
VARIABLES
    mounted,              \* a ProblemViewPage instance is mounted
    isMobile,             \* useScreenWidthWithin(0, 768)
    mobileEditorOpen,     \* page state
    tabActiveIndex,       \* active pane of the right column's Tab
    leftWidthPercentage,  \* page state, a JavaScript number
    isResizing,           \* page state
    bottomPanelHeight,    \* frame state
    isResizingBottom,     \* frame state
    isBottomCollapsed,    \* frame state
    listeners,            \* drag sessions registered on the window, in order
    nextSession,          \* identity of the closures the next mouse-down makes
    dispatch,             \* the window event being dispatched, if any
    last,                 \* the operation performed by the last step
    scriptTagsLoaded,     \* window.scriptTagsLoaded, as index.ts finds it
    loadedDeps,           \* external dependencies whose script has loaded
    evaluated,            \* app modules evaluated so far, in order
    entryPc,              \* where the evaluation of index.ts stands
    initialSubmissionContent, \* page ref, fixed at mount
    submissionContent,    \* page state
    modified,             \* page state (useConfirmNavigation)
    effectDue,            \* the effect on modified has a changed dependency
    submitPending,        \* page state
    calls,                \* onSubmit invocations that have not returned
    submitCount,          \* onSubmit invocations that passed the guard
    tabMounted,           \* a ProblemSubmissionsTab instance is mounted
    problemId,            \* prop of the tab
    currentUser,          \* appState.currentUser, "null" when logged out
    submissions,          \* tab state
    loading,              \* tab state
    error,                \* tab state, "null" or a message
    fetches,              \* fetchSubmissions invocations awaiting the API
    fetchCount,           \* fetchSubmissions invocations so far
    hookMounted,          \* a component that calls useSocket is mounted
    useOrNot,             \* argument of useSocket at the last render
    refSocket,            \* refSocket.current: 0 for null, else a socket
    hookReturned,         \* what useSocket returned at the last render
    sockets,              \* the sockets SocketIO() has created, in order
    securityMounted,      \* a SecurityView instance is mounted
    currentUserEmail,     \* appState.currentUser.email
    email,                \* view state
    emailVerificationCode,      \* view state: "" or a code
    emailVerificationCodeError, \* view state
    duplicateEmail,       \* view state
    sendEmailVerificationCodeTimeout, \* view state: the cooldown counter
    sendEmailVerificationCodePending, \* pending of onSendEmailVerificationCode
    pendingChangeEmail,   \* pending of onSubmitChangeEmail
    currentSessionId,     \* prop of the view, 0 when undefined
    sessions,             \* view state: the ids of the sessions listed
    revokeAllPopupOpen,   \* view state
    revokePending,        \* pending of onRevokeSession
    requests,             \* API requests of the view that are unanswered
    allowedLanguages      \* allowedLanguages of the traditional submit view

pageVars == <<mounted, isMobile, mobileEditorOpen, tabActiveIndex,
              leftWidthPercentage, isResizing>>
frameVars == <<bottomPanelHeight, isResizingBottom, isBottomCollapsed>>
layoutVars == <<pageVars, frameVars, listeners, nextSession, dispatch, last>>
entryVars == <<scriptTagsLoaded, loadedDeps, evaluated, entryPc>>

submitVars == <<initialSubmissionContent, submissionContent, modified,
                effectDue, submitPending, calls, submitCount>>
layoutRest ==
    <<isMobile, mobileEditorOpen, tabActiveIndex, leftWidthPercentage,
      isResizing, frameVars, listeners, nextSession, dispatch>>

tabVars == <<tabMounted, problemId, currentUser, submissions, loading, error,
             fetches, fetchCount>>
socketVars == <<hookMounted, useOrNot, refSocket, hookReturned, sockets>>
emailVars == <<currentUserEmail, email, emailVerificationCode,
               emailVerificationCodeError, duplicateEmail,
               sendEmailVerificationCodeTimeout,
               sendEmailVerificationCodePending, pendingChangeEmail>>
sessionVars ==
    <<currentSessionId, sessions, revokeAllPopupOpen, revokePending>>
securityVars == <<securityMounted, emailVars, sessionVars, requests>>
viewVars == <<tabVars, socketVars, securityVars, allowedLanguages>>

\* What a step of the layout leaves alone.
otherVars == <<entryVars, submitVars, viewVars>>
vars == <<layoutVars, otherVars>>

\* ----------------------------------------------------------- derived values
\* A left side that is already collapsed at the threshold.
IsLeftCollapsed_AtThreshold(lw) == JsLe(lw, LeftCollapseThreshold)

\* leftWidthPercentage < 2 and leftWidthPercentage > 98
IsLeftCollapsed(lw) == JsLt(lw, LeftCollapseThreshold)
IsRightCollapsed(lw) == JsGt(lw, RightCollapseThreshold)

isLeftCollapsed == IsLeftCollapsed(leftWidthPercentage)
isRightCollapsed == IsRightCollapsed(leftWidthPercentage)

\* The right column (and the Tab in it) is rendered by the desktop branch
\* unless the right side is collapsed.
RightColumnMounted(m, mob, lw) == m /\ ~mob /\ ~IsRightCollapsed(lw)

\* Where the SubmitViewFrame instance lives in the rendered tree: in the
\* submit pane of the Tab, in the mobile overlay, or nowhere.
FrameSlot(m, mob, open, lw, tab) ==
    IF ~m THEN "none"
    ELSE IF mob THEN (IF open THEN "overlay" ELSE "none")
    ELSE IF RightColumnMounted(m, mob, lw) /\ tab = SubmitTabIndex
         THEN "tab" ELSE "none"

frameSlot == FrameSlot(mounted, isMobile, mobileEditorOpen,
                       leftWidthPercentage, tabActiveIndex)

\* A divider that is rendered whatever the percentage.
DividerRendered_Always == mounted /\ ~isMobile

\* The divider of the split layout is rendered.
DividerRendered ==
    mounted /\ ~isMobile /\ ~isLeftCollapsed /\ ~isRightCollapsed

\* ---------------------------------------------------------------- sessions
\* One session is the pair of closures (onMouseMove, onMouseUp) made by one
\* call of startResizing or startResizingBottom; id is their identity.  live
\* tells whether the component instance whose setters they call still exists.
\* events are the window events the two closures are registered for.
SessionEvents == {"mousemove", "mouseup"}
LeftSession(id) ==
    [id |-> id, kind |-> "left", startY |-> 0, startHeight |-> 0,
     live |-> TRUE, events |-> SessionEvents]
BottomSession(id, y, h) ==
    [id |-> id, kind |-> "bottom", startY |-> y, startHeight |-> h,
     live |-> TRUE, events |-> SessionEvents]

\* The sessions of ls, in registration order, that listen for event type.
ListeningFor(ls, type) ==
    LET Listens(s) == type \in s.events
        hs == SelectSeq(ls, Listens)
    IN  [i \in 1..Len(hs) |-> hs[i].id]

Ids(ls) == {ls[i].id : i \in 1..Len(ls)}
Registered(id) == id \in Ids(listeners)
SessionOf(id) == listeners[CHOOSE i \in 1..Len(listeners) : listeners[i].id = id]

\* window.addEventListener for the two handlers of session s.
AddEventListeners(ls, s) == Append(ls, s)

\* A removal that falls back on the oldest registration when the handler it
\* is given is not registered.
RemoveEventListeners_Oldest(ls, id) ==
    LET Keep(s) == s.id # id
    IN  IF id \in Ids(ls) \/ ls = <<>> THEN SelectSeq(ls, Keep) ELSE Tail(ls)

\* window.removeEventListener for the two handlers of session id: removing
\* a handler that is not registered does nothing.
RemoveEventListeners(ls, id) ==
    LET Keep(s) == s.id # id IN SelectSeq(ls, Keep)

\* The sessions of an instance that went away keep their listeners; the
\* state setters they call no longer change anything.
MarkDead(ls, kinds) ==
    [i \in 1..Len(ls) |->
        IF ls[i].kind \in kinds THEN [ls[i] EXCEPT !.live = FALSE] ELSE ls[i]]

NoBounds == [left |-> 0, width |-> 0]
NoDispatch == [type |-> "none", pending |-> <<>>, x |-> 0, y |-> 0]

\* What the last step did: the operation, for a move handler where the
\* value it computed lies, and for the divider's move handler the bounding
\* box it read.
LogRead(op, outcome, b) == [op |-> op, outcome |-> outcome, b |-> b]
Log(op, outcome) == LogRead(op, outcome, NoBounds)

\* Where a JavaScript number lies with respect to [0, 100].
ClassOfPercentage(v) ==
    IF v.k # "num" THEN v.k
    ELSE IF v.n < 0 THEN "below"
    ELSE IF v.n > 100 * v.d THEN "above" ELSE "inside"

\* Where a computed height lies with respect to [30, 600).
ClassOfHeight(h) ==
    IF h < 30 THEN "below" ELSE IF h < 600 THEN "within" ELSE "above"

\* -------------------------------------------------------------- rendering
\* The page state changed to (m, mob, open, lw) and the user asked for pane
\* tabWanted: the Tab starts at pane 0 when the right column is mounted
\* anew, a SubmitViewFrame mounted anew starts from its initial state, and
\* the sessions of a frame that went away are left on the window.
Render(m, mob, open, lw, tabWanted, ls) ==
    LET wasRight == RightColumnMounted(mounted, isMobile, leftWidthPercentage)
        nowRight == RightColumnMounted(m, mob, lw)
        tab == IF nowRight /\ ~wasRight THEN SubmitTabIndex
               ELSE IF nowRight THEN tabWanted ELSE tabActiveIndex
        newSlot == FrameSlot(m, mob, open, lw, tab)
    IN  /\ tabActiveIndex' = tab
        /\ IF newSlot = frameSlot
           THEN /\ UNCHANGED frameVars
                /\ listeners' = ls
           ELSE /\ listeners' = MarkDead(ls, {"bottom"})
                /\ IF newSlot = "none"
                   THEN UNCHANGED frameVars
                   ELSE /\ bottomPanelHeight' = DefaultBottomHeight
                        /\ isResizingBottom' = FALSE
                        /\ isBottomCollapsed' = FALSE

\* ------------------------------------------------------ the entry module
\* External dependencies loaded by script tags (mobx, react, etc.).
ExternalDeps == {"mobx", "react", "react-dom"}

\* The app modules behind import "./index.tsx", in the order in which a
\* depth-first evaluation of the imports completes them.
AppModules ==
    << "misc/webfonts.ts", "appState.ts", "misc/analytics.js", "initApp.ts",
       "Layout.tsx", "page routes", "AppRouter.tsx", "App.tsx", "index.tsx" >>

\* The entry module has been evaluated and the app runs.
EntryDone ==
    /\ scriptTagsLoaded = "undefined"
    /\ loadedDeps = ExternalDeps
    /\ evaluated = AppModules
    /\ entryPc = "done"

\* ----------------------------------------------------------- submission
\* Number of onSubmit invocations of a behaviour that get past the guard.
MaxSubmits == 2

\* Languages and codes of a submission content; "extract" is what
\* getExtractInterfaceCode gives for the problem.
Languages == {"cpp", "cuda"}
Codes == {"", "extract", "edited"}
Contents == [language : Languages, code : Codes]

\* getDefaultCode(language)
GetDefaultCode(language) == IF language = "cuda" THEN "extract" ELSE ""

\* A page with the content it was mounted with and nothing being submitted.
SubmitIdle ==
    /\ initialSubmissionContent = [language |-> "cpp", code |-> "extract"]
    /\ submissionContent = initialSubmissionContent
    /\ modified = FALSE
    /\ effectDue = FALSE
    /\ submitPending = FALSE
    /\ calls = <<>>
    /\ submitCount = 0

\* ------------------------------------------------- the submissions tab
\* Number of fetchSubmissions invocations of a behaviour.
MaxFetches == 3

\* No submissions tab is rendered.
TabIdle ==
    /\ tabMounted = FALSE
    /\ problemId = 1
    /\ currentUser = "null"
    /\ submissions = <<>>
    /\ loading = FALSE
    /\ error = "null"
    /\ fetches = <<>>
    /\ fetchCount = 0

\* ------------------------------------------------------------ useSocket
\* Number of sockets a behaviour creates.
MaxSockets == 3

\* Number of times the connection of one socket is established.
MaxConnects == 2

\* No component that calls useSocket is rendered.
SocketIdle ==
    /\ hookMounted = FALSE
    /\ useOrNot = FALSE
    /\ refSocket = 0
    /\ hookReturned = 0
    /\ sockets = <<>>

\* ------------------------------------------------------ the security view
\* setSendEmailVerificationCodeTimeout(61)
CooldownStart == 61

\* Number of unanswered requests a view instance may leave behind.
MaxOrphans == 1

Emails == {"a@x", "b@x"}

\* No security view is rendered.
EmailIdle ==
    /\ currentUserEmail = "a@x"
    /\ email = "a@x"
    /\ emailVerificationCode = ""
    /\ emailVerificationCodeError = FALSE
    /\ duplicateEmail = FALSE
    /\ sendEmailVerificationCodeTimeout = 0
    /\ sendEmailVerificationCodePending = FALSE
    /\ pendingChangeEmail = FALSE

SessionIds == {1, 2, 3}

\* The session section as a view shows it at first for the sessions ss of
\* the user, cur being the session of the browser (0 when it is not passed).
SessionsShown(cur, ss) ==
    /\ currentSessionId = cur
    /\ sessions = ss
    /\ revokeAllPopupOpen = FALSE
    /\ revokePending = FALSE

SecurityIdle ==
    /\ securityMounted = FALSE
    /\ EmailIdle
    /\ SessionsShown(0, {})
    /\ requests = <<>>

\* None of the other views is rendered.
ViewsIdle ==
    TabIdle /\ SocketIdle /\ SecurityIdle /\ allowedLanguages = <<>>

Init ==
    /\ EntryDone
    /\ SubmitIdle
    /\ ViewsIdle
    /\ mounted = TRUE
    /\ isMobile \in BOOLEAN
    /\ mobileEditorOpen = FALSE
    /\ tabActiveIndex = SubmitTabIndex
    /\ leftWidthPercentage = Num(DefaultLeftWidth, 1)
    /\ isResizing = FALSE
    /\ bottomPanelHeight = DefaultBottomHeight
    /\ isResizingBottom = FALSE
    /\ isBottomCollapsed = FALSE
    /\ listeners = <<>>
    /\ nextSession = 1
    /\ dispatch = NoDispatch
    /\ last = Log("init", "none")

\* ------------------------------------------------- horizontal split: page
\* A percentage taken from the pointer's offset in the window.
NewLeftWidth_FromWindowEdge(x, b) == JsTimes(JsDiv(x, b.width), 100)

\* newLeftWidth = ((clientX - left) / width) * 100
NewLeftWidth(x, b) == JsTimes(JsDiv(x - b.left, b.width), 100)

\* The range test without its upper limit.
AcceptLeftWidth_NoUpperLimit(v) == JsGe(v, 0)

\* The range test written as !(newLeftWidth < 0 || newLeftWidth > 100).
AcceptLeftWidth_Negated(v) == ~(JsLt(v, 0) \/ JsGt(v, 100))

\* newLeftWidth >= 0 && newLeftWidth <= 100
AcceptLeftWidth(v) == JsGe(v, 0) /\ JsLe(v, 100)

\* A handler that clamps an out-of-range percentage to the nearer limit.
OnMouseMoveLeft_Clamped(lw, ref, x, b) ==
    IF ~ref THEN lw
    ELSE IF AcceptLeftWidth(NewLeftWidth(x, b)) THEN NewLeftWidth(x, b)
    ELSE IF JsLt(NewLeftWidth(x, b), 0) THEN Num(0, 1)
    ELSE IF JsGt(NewLeftWidth(x, b), 100) THEN Num(100, 1)
    ELSE lw

\* The body of startResizing's onMouseMove: the percentage the page holds
\* after the handler ran with the container present (ref) or absent.
OnMouseMoveLeft(lw, ref, x, b) ==
    IF ref /\ AcceptLeftWidth(NewLeftWidth(x, b))
    THEN NewLeftWidth(x, b)
    ELSE lw

\* mouse-down on the divider
StartResizing ==
    /\ dispatch.type = "none"
    /\ UNCHANGED otherVars
    /\ DividerRendered
    /\ nextSession <= MaxStarts
    /\ isResizing' = TRUE
    /\ listeners' = AddEventListeners(listeners, LeftSession(nextSession))
    /\ nextSession' = nextSession + 1
    /\ last' = Log("startResizing", "none")
    /\ UNCHANGED <<mounted, isMobile, mobileEditorOpen, tabActiveIndex,
                   leftWidthPercentage, frameVars, dispatch>>

\* An onMouseUp that forgets to clear the flag.
OnMouseUpFlag_Kept(flag, live) == flag

\* setIsResizing(false) / setIsResizingBottom(false) called by the onMouseUp
\* of a session: the setter of an instance that is gone changes nothing.
OnMouseUpFlag(flag, live) == IF live THEN FALSE ELSE flag

\* What is left of a dispatch once its first pending handler has run.
Advance(d) ==
    IF Len(d.pending) = 1 THEN NoDispatch
    ELSE [d EXCEPT !.pending = Tail(d.pending)]

\* splitLayoutRef.current of the instance session s belongs to is set: the
\* instance exists and renders the desktop branch.
RefPresent(s) == s.live /\ mounted /\ ~isMobile

\* onMouseMove of a session of the divider, called by the window; b is what
\* getBoundingClientRect() returns when the container is there.
StartResizing_onMouseMove(b) ==
    /\ dispatch.type = "mousemove"
    /\ UNCHANGED otherVars
    /\ Registered(Head(dispatch.pending))
    /\ LET s == SessionOf(Head(dispatch.pending))
           ref == RefPresent(s)
           lw == OnMouseMoveLeft(leftWidthPercentage, ref, dispatch.x, b)
       IN  /\ s.kind = "left"
           /\ IF ref THEN b \in ContainerBounds ELSE b = NoBounds
           /\ leftWidthPercentage' = lw
           /\ Render(mounted, isMobile, mobileEditorOpen, lw, tabActiveIndex,
                     listeners)
           /\ last' = LogRead("onMouseMove",
                              IF ~ref THEN "absent"
                              ELSE ClassOfPercentage(
                                       NewLeftWidth(dispatch.x, b)),
                              b)
    /\ dispatch' = Advance(dispatch)
    /\ UNCHANGED <<mounted, isMobile, mobileEditorOpen, isResizing,
                   nextSession>>

\* onMouseUp of a session of the divider, called by the window
StartResizing_onMouseUp ==
    /\ dispatch.type = "mouseup"
    /\ UNCHANGED otherVars
    /\ Registered(Head(dispatch.pending))
    /\ LET s == SessionOf(Head(dispatch.pending))
       IN  /\ s.kind = "left"
           /\ isResizing' = OnMouseUpFlag(isResizing, s.live)
           /\ listeners' = RemoveEventListeners(listeners, s.id)
           /\ last' = Log("onMouseUp", "none")
    /\ dispatch' = Advance(dispatch)
    /\ UNCHANGED <<mounted, isMobile, mobileEditorOpen, tabActiveIndex,
                   leftWidthPercentage, frameVars, nextSession>>

\* click on the collapsed bar of the left side
RestoreLeft ==
    /\ dispatch.type = "none"
    /\ UNCHANGED otherVars
    /\ mounted /\ ~isMobile /\ isLeftCollapsed
    /\ leftWidthPercentage' = Num(DefaultLeftWidth, 1)
    /\ Render(mounted, isMobile, mobileEditorOpen, Num(DefaultLeftWidth, 1),
              tabActiveIndex, listeners)
    /\ last' = Log("restoreLeft", "none")
    /\ UNCHANGED <<mounted, isMobile, mobileEditorOpen, isResizing,
                   nextSession, dispatch>>

\* A restore of the right side that stops at the collapse threshold.
RestoreRight_ToThreshold ==
    /\ dispatch.type = "none"
    /\ UNCHANGED otherVars
    /\ mounted /\ ~isMobile /\ ~isLeftCollapsed /\ isRightCollapsed
    /\ leftWidthPercentage' = Num(RightCollapseThreshold, 1)
    /\ Render(mounted, isMobile, mobileEditorOpen,
              Num(RightCollapseThreshold, 1), tabActiveIndex, listeners)
    /\ last' = Log("restoreRight", "none")
    /\ UNCHANGED <<mounted, isMobile, mobileEditorOpen, isResizing,
                   nextSession, dispatch>>

\* click on the collapsed bar of the right side
RestoreRight ==
    /\ dispatch.type = "none"
    /\ UNCHANGED otherVars
    /\ mounted /\ ~isMobile /\ ~isLeftCollapsed /\ isRightCollapsed
    /\ leftWidthPercentage' = Num(DefaultLeftWidth, 1)
    /\ Render(mounted, isMobile, mobileEditorOpen, Num(DefaultLeftWidth, 1),
              tabActiveIndex, listeners)
    /\ last' = Log("restoreRight", "none")
    /\ UNCHANGED <<mounted, isMobile, mobileEditorOpen, isResizing,
                   nextSession, dispatch>>

\* ---------------------------------------------------- bottom panel: frame
\* A height that grows when the pointer moves down.
NewHeight_Downwards(s, y) == s.startHeight + (y - s.startY)

\* newHeight = startHeight + (startY - clientY)
NewHeight(s, y) == s.startHeight + (s.startY - y)

\* A handler without the upper limit of the first branch.
OnMouseMoveBottom_NoCeiling(h, c, newHeight) ==
    IF newHeight >= CollapsedBottomHeight
    THEN [height |-> newHeight, collapsed |-> FALSE]
    ELSE [height |-> CollapsedBottomHeight, collapsed |-> TRUE]

\* A handler that stores the computed height when it collapses the panel.
OnMouseMoveBottom_StoresComputed(h, c, newHeight) ==
    IF newHeight >= CollapsedBottomHeight /\ newHeight < MaxBottomHeight
    THEN [height |-> newHeight, collapsed |-> FALSE]
    ELSE IF newHeight < CollapsedBottomHeight
         THEN [height |-> newHeight, collapsed |-> TRUE]
         ELSE [height |-> h, collapsed |-> c]

\* A handler whose first branch also takes a computed height of exactly 600.
OnMouseMoveBottom_CeilingIncluded(h, c, newHeight) ==
    IF newHeight >= CollapsedBottomHeight /\ newHeight <= MaxBottomHeight
    THEN [height |-> newHeight, collapsed |-> FALSE]
    ELSE IF newHeight < CollapsedBottomHeight
         THEN [height |-> CollapsedBottomHeight, collapsed |-> TRUE]
         ELSE [height |-> h, collapsed |-> c]

\* The body of startResizingBottom's onMouseMove: the height and the
\* collapsed flag the frame holds after the handler computed newHeight.
OnMouseMoveBottom(h, c, newHeight) ==
    IF newHeight >= CollapsedBottomHeight /\ newHeight < MaxBottomHeight
    THEN [height |-> newHeight, collapsed |-> FALSE]
    ELSE IF newHeight < CollapsedBottomHeight
         THEN [height |-> CollapsedBottomHeight, collapsed |-> TRUE]
         ELSE [height |-> h, collapsed |-> c]

\* A toggle that collapses the panel whatever its state.
ToggleBottom_AlwaysCollapses(c) ==
    [height |-> CollapsedBottomHeight, collapsed |-> TRUE]

\* The body of toggleBottomCollapse.
ToggleBottom(c) ==
    IF c
    THEN [height |-> DefaultBottomHeight, collapsed |-> FALSE]
    ELSE [height |-> CollapsedBottomHeight, collapsed |-> TRUE]

\* mouse-down on the resizer above the bottom panel, pointer at height y
StartResizingBottom(y) ==
    /\ dispatch.type = "none"
    /\ UNCHANGED otherVars
    /\ frameSlot # "none"
    /\ nextSession <= MaxStarts
    /\ isResizingBottom' = TRUE
    /\ listeners' = AddEventListeners(listeners,
                        BottomSession(nextSession, y, bottomPanelHeight))
    /\ nextSession' = nextSession + 1
    /\ last' = Log("startResizingBottom", "none")
    /\ UNCHANGED <<pageVars, bottomPanelHeight, isBottomCollapsed, dispatch>>

\* onMouseMove of a session of the bottom resizer, called by the window
StartResizingBottom_onMouseMove ==
    /\ dispatch.type = "mousemove"
    /\ UNCHANGED otherVars
    /\ Registered(Head(dispatch.pending))
    /\ LET s == SessionOf(Head(dispatch.pending))
           r == OnMouseMoveBottom(bottomPanelHeight, isBottomCollapsed,
                                  NewHeight(s, dispatch.y))
       IN  /\ s.kind = "bottom"
           /\ bottomPanelHeight' = IF s.live THEN r.height
                                   ELSE bottomPanelHeight
           /\ isBottomCollapsed' = IF s.live THEN r.collapsed
                                   ELSE isBottomCollapsed
           /\ last' = Log("onMouseMoveBottom",
                          IF ~s.live THEN "gone"
                          ELSE ClassOfHeight(NewHeight(s, dispatch.y)))
    /\ dispatch' = Advance(dispatch)
    /\ UNCHANGED <<pageVars, isResizingBottom, listeners, nextSession>>

\* onMouseUp of a session of the bottom resizer, called by the window
StartResizingBottom_onMouseUp ==
    /\ dispatch.type = "mouseup"
    /\ UNCHANGED otherVars
    /\ Registered(Head(dispatch.pending))
    /\ LET s == SessionOf(Head(dispatch.pending))
       IN  /\ s.kind = "bottom"
           /\ isResizingBottom' = OnMouseUpFlag(isResizingBottom, s.live)
           /\ listeners' = RemoveEventListeners(listeners, s.id)
           /\ last' = Log("onMouseUpBottom", "none")
    /\ dispatch' = Advance(dispatch)
    /\ UNCHANGED <<pageVars, bottomPanelHeight, isBottomCollapsed,
                   nextSession>>

\* click on the title of the bottom panel
ToggleBottomCollapse ==
    /\ dispatch.type = "none"
    /\ UNCHANGED otherVars
    /\ frameSlot # "none"
    /\ bottomPanelHeight' = ToggleBottom(isBottomCollapsed).height
    /\ isBottomCollapsed' = ToggleBottom(isBottomCollapsed).collapsed
    /\ last' = Log("toggleBottomCollapse", "none")
    /\ UNCHANGED <<pageVars, isResizingBottom, listeners, nextSession,
                   dispatch>>

\* ------------------------------------------------------------ the window
\* The coordinates of a mouse-move that matter: clientX is read by the
\* handlers of the divider whose container is there, clientY by the handlers
\* of the bottom resizer, whose result is dropped when their frame is gone.
ReadsClientX ==
    \E i \in 1..Len(listeners) :
        listeners[i].kind = "left" /\ RefPresent(listeners[i])
ReadsClientY ==
    \E i \in 1..Len(listeners) :
        listeners[i].kind = "bottom" /\ listeners[i].live

\* The window receives a mouse-move: every registered onMouseMove is called,
\* in registration order.
MouseMove(x, y) ==
    /\ dispatch.type = "none"
    /\ UNCHANGED otherVars
    /\ IF ReadsClientX THEN x \in ClientXs ELSE x = 0
    /\ IF ReadsClientY THEN y \in ClientYs ELSE y = 0
    /\ dispatch' = IF listeners = <<>> THEN NoDispatch
                   ELSE [type |-> "mousemove",
                         pending |-> [i \in 1..Len(listeners) |->
                                        listeners[i].id],
                         x |-> x, y |-> y]
    /\ last' = Log("mousemove", "none")
    /\ UNCHANGED <<pageVars, frameVars, listeners, nextSession>>

\* A mouse-up that reaches only the handler registered last.
MouseUp_LastOnly ==
    /\ dispatch.type = "none"
    /\ UNCHANGED otherVars
    /\ dispatch' = IF listeners = <<>> THEN NoDispatch
                   ELSE [type |-> "mouseup",
                         pending |-> <<listeners[Len(listeners)].id>>,
                         x |-> 0, y |-> 0]
    /\ last' = Log("mouseup", "none")
    /\ UNCHANGED <<pageVars, frameVars, listeners, nextSession>>

\* The window receives a mouse-up: every registered onMouseUp is called.
MouseUp ==
    /\ dispatch.type = "none"
    /\ UNCHANGED otherVars
    /\ dispatch' = IF listeners = <<>> THEN NoDispatch
                   ELSE [type |-> "mouseup",
                         pending |-> [i \in 1..Len(listeners) |->
                                        listeners[i].id],
                         x |-> 0, y |-> 0]
    /\ last' = Log("mouseup", "none")
    /\ UNCHANGED <<pageVars, frameVars, listeners, nextSession>>

\* A touch-start on a rendered resizer: the resizers have an onMouseDown
\* and no handler for touch events, so nothing is called.
TouchStart ==
    /\ dispatch.type = "none"
    /\ UNCHANGED otherVars
    /\ DividerRendered \/ frameSlot # "none"
    /\ last' = Log("touchstart", "none")
    /\ UNCHANGED <<pageVars, frameVars, listeners, nextSession, dispatch>>

\* The window receives a touch-move or a touch-end: the handlers registered
\* for that event are called.
WindowTouch(type) ==
    /\ dispatch.type = "none"
    /\ UNCHANGED otherVars
    /\ dispatch' = IF ListeningFor(listeners, type) = <<>> THEN NoDispatch
                   ELSE [type |-> type,
                         pending |-> ListeningFor(listeners, type),
                         x |-> 0, y |-> 0]
    /\ last' = Log(type, "none")
    /\ UNCHANGED <<pageVars, frameVars, listeners, nextSession>>

\* ------------------------------------------------------- page life cycle
\* The viewport crosses the 768 breakpoint.
ViewportResize ==
    /\ dispatch.type = "none"
    /\ UNCHANGED otherVars
    /\ mounted
    /\ isMobile' = ~isMobile
    /\ Render(mounted, ~isMobile, mobileEditorOpen, leftWidthPercentage,
              tabActiveIndex, listeners)
    /\ last' = Log("viewportResize", "none")
    /\ UNCHANGED <<mounted, mobileEditorOpen, leftWidthPercentage,
                   isResizing, nextSession, dispatch>>

\* setMobileEditorOpen(open), from the buttons of the mobile branch
SetMobileEditorOpen(open) ==
    /\ dispatch.type = "none"
    /\ UNCHANGED otherVars
    /\ mounted /\ isMobile /\ mobileEditorOpen # open
    /\ mobileEditorOpen' = open
    /\ Render(mounted, isMobile, open, leftWidthPercentage, tabActiveIndex,
              listeners)
    /\ last' = Log("setMobileEditorOpen", "none")
    /\ UNCHANGED <<mounted, isMobile, leftWidthPercentage, isResizing,
                   nextSession, dispatch>>

\* The user picks pane i of the Tab in the right column.
TabChange(i) ==
    /\ dispatch.type = "none"
    /\ UNCHANGED otherVars
    /\ RightColumnMounted(mounted, isMobile, leftWidthPercentage)
    /\ i # tabActiveIndex
    /\ Render(mounted, isMobile, mobileEditorOpen, leftWidthPercentage, i,
              listeners)
    /\ last' = Log("tabChange", "none")
    /\ UNCHANGED <<mounted, isMobile, mobileEditorOpen, leftWidthPercentage,
                   isResizing, nextSession, dispatch>>

\* The page instance is unmounted (navigation): no effect of the page or of
\* the frame has a cleanup that touches the window listeners or the flags.
Unmount ==
    /\ dispatch.type = "none"
    /\ UNCHANGED otherVars
    /\ mounted
    /\ mounted' = FALSE
    /\ Render(FALSE, isMobile, mobileEditorOpen, leftWidthPercentage,
              tabActiveIndex, MarkDead(listeners, {"left", "bottom"}))
    /\ last' = Log("unmount", "none")
    /\ UNCHANGED <<isMobile, mobileEditorOpen, leftWidthPercentage,
                   isResizing, nextSession, dispatch>>

\* A new page instance is mounted: every useState starts from its initial
\* value.
Mount(mob) ==
    /\ dispatch.type = "none"
    /\ UNCHANGED otherVars
    /\ ~mounted
    /\ mounted' = TRUE
    /\ isMobile' = mob
    /\ mobileEditorOpen' = FALSE
    /\ leftWidthPercentage' = Num(DefaultLeftWidth, 1)
    /\ isResizing' = FALSE
    /\ Render(TRUE, mob, FALSE, Num(DefaultLeftWidth, 1), SubmitTabIndex,
              listeners)
    /\ last' = Log("mount", "none")
    /\ UNCHANGED <<nextSession, dispatch>>

Next ==
    \/ StartResizing
    \/ \E b \in ContainerBounds \cup {NoBounds} : StartResizing_onMouseMove(b)
    \/ StartResizing_onMouseUp
    \/ RestoreLeft
    \/ RestoreRight
    \/ \E y \in StartYs : StartResizingBottom(y)
    \/ StartResizingBottom_onMouseMove
    \/ StartResizingBottom_onMouseUp
    \/ ToggleBottomCollapse
    \/ \E x \in ClientXs \cup {0}, y \in ClientYs \cup {0} : MouseMove(x, y)
    \/ MouseUp
    \/ ViewportResize
    \/ \E open \in BOOLEAN : SetMobileEditorOpen(open)
    \/ \E i \in {SubmitTabIndex, SubmissionsTabIndex} : TabChange(i)
    \/ Unmount
    \/ \E mob \in BOOLEAN : Mount(mob)

Spec == Init /\ [][Next]_vars

\* The drags of one page instance in a viewport that keeps its class, with
\* a touch screen as well as a mouse.
NextTouch ==
    \/ StartResizing
    \/ \E b \in ContainerBounds \cup {NoBounds} : StartResizing_onMouseMove(b)
    \/ StartResizing_onMouseUp
    \/ RestoreLeft
    \/ RestoreRight
    \/ \E y \in StartYs : StartResizingBottom(y)
    \/ StartResizingBottom_onMouseMove
    \/ StartResizingBottom_onMouseUp
    \/ ToggleBottomCollapse
    \/ \E x \in ClientXs \cup {0}, y \in ClientYs \cup {0} : MouseMove(x, y)
    \/ MouseUp
    \/ TouchStart
    \/ \E type \in {"touchmove", "touchend"} : WindowTouch(type)
    \/ \E open \in BOOLEAN : SetMobileEditorOpen(open)

TouchSpec == Init /\ [][NextTouch]_vars

\* ------------------------------------------------------ the entry module
\* The layout of a page nobody has touched.
LayoutIdle ==
    /\ isMobile = FALSE
    /\ mobileEditorOpen = FALSE
    /\ tabActiveIndex = SubmitTabIndex
    /\ leftWidthPercentage = Num(DefaultLeftWidth, 1)
    /\ isResizing = FALSE
    /\ bottomPanelHeight = DefaultBottomHeight
    /\ isResizingBottom = FALSE
    /\ isBottomCollapsed = FALSE
    /\ listeners = <<>>
    /\ nextSession = 1
    /\ dispatch = NoDispatch
    /\ last = Log("init", "none")

\* No page is there yet.
PageAbsent == mounted = FALSE /\ LayoutIdle /\ SubmitIdle /\ ViewsIdle

\* The document starts to load index.ts: the page defines
\* window.scriptTagsLoaded or not, and no script has loaded yet.
EntryInit ==
    /\ PageAbsent
    /\ scriptTagsLoaded \in {"undefined", "pending"}
    /\ loadedDeps = {}
    /\ evaluated = <<>>
    /\ entryPc = "imports"

\* The script tag of dependency d has loaded; the promise of the page
\* resolves with the last of them.
LoadDependency(d) ==
    /\ d \notin loadedDeps
    /\ loadedDeps' = loadedDeps \cup {d}
    /\ scriptTagsLoaded' =
          IF scriptTagsLoaded = "pending" /\ loadedDeps \cup {d} = ExternalDeps
          THEN "resolved" ELSE scriptTagsLoaded
    /\ UNCHANGED <<evaluated, entryPc, layoutVars, submitVars, viewVars>>

\* import "./index.tsx": an import declaration is carried out before the
\* body of the importing module runs, wherever it stands in the text.  One
\* step evaluates one module.
EvaluateImport ==
    /\ entryPc = "imports"
    /\ evaluated' = Append(evaluated, AppModules[Len(evaluated) + 1])
    /\ entryPc' = IF Len(evaluated) + 1 = Len(AppModules)
                  THEN "body" ELSE "imports"
    /\ UNCHANGED <<scriptTagsLoaded, loadedDeps, layoutVars, submitVars,
                   viewVars>>

\* The body of index.ts up to the await: if (scriptTagsLoaded) await it.
EntryBody ==
    /\ entryPc = "body"
    /\ entryPc' = IF scriptTagsLoaded = "undefined" THEN "done" ELSE "await"
    /\ UNCHANGED <<scriptTagsLoaded, loadedDeps, evaluated, layoutVars,
                   submitVars, viewVars>>

\* The awaited promise has resolved: the body runs to its end.
EntryResume ==
    /\ entryPc = "await"
    /\ scriptTagsLoaded = "resolved"
    /\ entryPc' = "done"
    /\ UNCHANGED <<scriptTagsLoaded, loadedDeps, evaluated, layoutVars,
                   submitVars, viewVars>>

EntryNext ==
    \/ \E d \in ExternalDeps : LoadDependency(d)
    \/ EvaluateImport
    \/ EntryBody
    \/ EntryResume

EntrySpec == EntryInit /\ [][EntryNext]_vars

\* ----------------------------------------------------------- submission
\* A flag that only compares with the initial content.
ShouldBeModified_InitialOnly(content, initial) == ~(content = initial)

\* shouldBeModified of the effect on modified
ShouldBeModified(content, initial) ==
    LET isInitial == content = initial
        isDefault == content.code = GetDefaultCode(content.language)
    IN  ~(isInitial \/ isDefault)

\* One onSubmit invocation that has not returned: it waits for
\* onGetSubmitFile or for callApiWithFileUpload; live tells whether the page
\* instance whose setters it calls still exists.
Call(pc) == [pc |-> pc, live |-> TRUE]

\* calls without its i-th element
RemoveCall(cs, i) == SubSeq(cs, 1, i - 1) \o SubSeq(cs, i + 1, Len(cs))

\* The invocations of a page instance that went away go on; the setters
\* they call no longer change anything.
MarkCallsDead(cs) == [i \in 1..Len(cs) |-> [cs[i] EXCEPT !.live = FALSE]]

\* The requests that have been issued and not answered.
InFlight == {i \in 1..Len(calls) : calls[i].pc = "api"}

\* A page is mounted: the last submission of the user, or the default
\* content with the extracted interface code, is its initial content.
SubmitInit ==
    /\ mounted = TRUE
    /\ LayoutIdle
    /\ EntryDone
    /\ ViewsIdle
    /\ initialSubmissionContent \in Contents
    /\ submissionContent = initialSubmissionContent
    /\ modified = FALSE
    /\ effectDue = TRUE
    /\ submitPending = FALSE
    /\ calls = <<>>
    /\ submitCount = 0

\* onSubmit(onGetSubmitFile) up to its first await, called by a click on a
\* submit button of the rendered page.
OnSubmit(hasFile) ==
    /\ mounted
    /\ IF submitPending
       THEN /\ last' = Log("onSubmit", "returned")
            /\ UNCHANGED <<submitPending, calls, submitCount>>
       ELSE /\ submitCount < MaxSubmits
            /\ submitPending' = TRUE
            /\ calls' = Append(calls,
                               Call(IF hasFile THEN "getFile" ELSE "api"))
            /\ submitCount' = submitCount + 1
            /\ last' = Log("onSubmit", "started")
    /\ UNCHANGED <<initialSubmissionContent, submissionContent, modified,
                   effectDue, mounted, layoutRest, entryVars, viewVars>>

\* The promise of onGetSubmitFile() settles: resolved, the file goes to
\* callApiWithFileUpload; rejected, onSubmit ends with the exception.
OnGetSubmitFileSettles(i, ok) ==
    /\ i \in 1..Len(calls)
    /\ calls[i].pc = "getFile"
    /\ calls' = IF ok THEN [calls EXCEPT ![i].pc = "api"]
                ELSE RemoveCall(calls, i)
    /\ last' = Log("onGetSubmitFile", IF ok THEN "resolved" ELSE "rejected")
    /\ UNCHANGED <<initialSubmissionContent, submissionContent, modified,
                   effectDue, submitPending, submitCount, mounted,
                   layoutRest, entryVars, viewVars>>

\* callApiWithFileUpload has returned: the rest of onSubmit runs.
SubmitSettles(i, outcome) ==
    /\ i \in 1..Len(calls)
    /\ calls[i].pc = "api"
    /\ calls' = RemoveCall(calls, i)
    /\ IF calls[i].live
       THEN /\ submitPending' = FALSE
            /\ IF outcome = "success"
               THEN modified' = FALSE /\ effectDue' = (effectDue \/ modified)
               ELSE UNCHANGED <<modified, effectDue>>
       ELSE UNCHANGED <<submitPending, modified, effectDue>>
    /\ last' = Log("callApiWithFileUpload", outcome)
    /\ UNCHANGED <<initialSubmissionContent, submissionContent, submitCount,
                   mounted, layoutRest, entryVars, viewVars>>

\* updateSubmissionContent(path, value) for the language or the code
UpdateSubmissionContent(path, value) ==
    /\ mounted
    /\ submissionContent' = [submissionContent EXCEPT ![path] = value]
    /\ submissionContent' # submissionContent
    /\ effectDue' = TRUE
    /\ last' = Log("updateSubmissionContent", path)
    /\ UNCHANGED <<initialSubmissionContent, modified, submitPending, calls,
                   submitCount, mounted, layoutRest, entryVars, viewVars>>

\* The effect with dependencies [submissionContent,
\* initialSubmissionContent, modified] runs.
ModifiedEffect ==
    /\ mounted
    /\ effectDue
    /\ modified' = ShouldBeModified(submissionContent,
                                    initialSubmissionContent)
    /\ effectDue' = (modified' # modified)
    /\ last' = Log("effect", IF modified' # modified THEN "set" ELSE "kept")
    /\ UNCHANGED <<initialSubmissionContent, submissionContent,
                   submitPending, calls, submitCount, mounted, layoutRest,
                   entryVars, viewVars>>

\* The route changes and the page instance is unmounted; onSubmit has
\* nothing that cancels a request.
NavigateAway ==
    /\ mounted
    /\ mounted' = FALSE
    /\ calls' = MarkCallsDead(calls)
    /\ last' = Log("navigateAway", "none")
    /\ UNCHANGED <<initialSubmissionContent, submissionContent, modified,
                   effectDue, submitPending, submitCount, layoutRest,
                   entryVars, viewVars>>

\* The route comes back to the problem: a new page instance starts from its
\* initial values.
MountPage(content) ==
    /\ ~mounted
    /\ mounted' = TRUE
    /\ initialSubmissionContent' = content
    /\ submissionContent' = content
    /\ modified' = FALSE
    /\ effectDue' = TRUE
    /\ submitPending' = FALSE
    /\ last' = Log("mountPage", "none")
    /\ UNCHANGED <<calls, submitCount, layoutRest, entryVars, viewVars>>

SubmitNext ==
    \/ \E hasFile \in BOOLEAN : OnSubmit(hasFile)
    \/ \E i \in 1..MaxSubmits + 1, ok \in BOOLEAN :
          OnGetSubmitFileSettles(i, ok)
    \/ \E i \in 1..MaxSubmits + 1,
          outcome \in {"uploadError", "requestError", "responseError",
                       "success"} : SubmitSettles(i, outcome)
    \/ \E value \in Languages : UpdateSubmissionContent("language", value)
    \/ \E value \in Codes : UpdateSubmissionContent("code", value)
    \/ ModifiedEffect
    \/ NavigateAway
    \/ \E content \in Contents : MountPage(content)

SubmitSpec == SubmitInit /\ [][SubmitNext]_vars

\* Every promise onSubmit awaits settles, and an effect that is due runs.
SubmitFairSpec ==
    /\ SubmitSpec
    /\ WF_vars(\E i \in 1..MaxSubmits + 1, ok \in BOOLEAN :
                  OnGetSubmitFileSettles(i, ok))
    /\ WF_vars(\E i \in 1..MaxSubmits + 1,
                  outcome \in {"uploadError", "requestError",
                               "responseError", "success"} :
                  SubmitSettles(i, outcome))
    /\ WF_vars(ModifiedEffect)

\* ------------------------------------------------- the submissions tab
ProblemIds == {1, 2}
Users == {"null", "alice"}

\* What a step of the tab leaves alone besides its own state.
tabRest ==
    <<mounted, layoutRest, entryVars, submitVars, socketVars, securityVars,
      allowedLanguages>>

\* The query fetchSubmissions builds: submitter only when logged in.
Query(p, u) == [problemId |-> p, submitter |-> u]

\* The answers of the server to query q: response.submissions may be
\* absent, empty, or hold submissions of that problem (and submitter).
Responses(q) ==
    { [has |-> FALSE, submissions |-> <<>>],
      [has |-> TRUE, submissions |-> <<>>],
      [has |-> TRUE,
       submissions |-> << [problemId |-> q.problemId,
                           submitter |-> q.submitter] >>] }

\* response.submissions || []
OrEmpty(r) == IF r.has THEN r.submissions ELSE <<>>

\* The message the catch block stores for a failed request.
ErrorMessage(outcome) ==
    CASE outcome = "requestError" -> "requestError(_)"
      [] outcome = "responseError" -> "response.error"
      [] outcome = "thrown" -> "e.message"

\* fetchSubmissions() up to its await, for problem p and user u.
FetchSubmissions(p, u) ==
    /\ fetchCount < MaxFetches
    /\ loading' = TRUE
    /\ error' = "null"
    /\ fetches' = Append(fetches, [id |-> fetchCount + 1,
                                   query |-> Query(p, u), live |-> TRUE])
    /\ fetchCount' = fetchCount + 1

\* The tab is rendered for problem p: state starts from its initial values
\* and the effect calls fetchSubmissions.
MountTab(p) ==
    /\ ~tabMounted
    /\ tabMounted' = TRUE
    /\ problemId' = p
    /\ submissions' = <<>>
    /\ FetchSubmissions(p, currentUser)
    /\ last' = Log("mountTab", "none")
    /\ UNCHANGED <<currentUser, tabRest>>

\* The problemId prop changes: the effect calls fetchSubmissions.
ChangeProblemId(p) ==
    /\ tabMounted
    /\ p # problemId
    /\ problemId' = p
    /\ FetchSubmissions(p, currentUser)
    /\ last' = Log("problemId", "none")
    /\ UNCHANGED <<tabMounted, currentUser, submissions, tabRest>>

\* appState.currentUser changes: the effect calls fetchSubmissions.
ChangeCurrentUser(u) ==
    /\ tabMounted
    /\ u # currentUser
    /\ currentUser' = u
    /\ FetchSubmissions(problemId, u)
    /\ last' = Log("currentUser", "none")
    /\ UNCHANGED <<tabMounted, problemId, submissions, tabRest>>

\* api.submission.querySubmission settles for the i-th pending invocation:
\* the rest of fetchSubmissions runs (try, catch, finally).
QuerySettles(i, outcome, r) ==
    /\ i \in 1..Len(fetches)
    /\ r \in Responses(fetches[i].query)
    /\ fetches' = RemoveCall(fetches, i)
    /\ IF fetches[i].live
       THEN /\ loading' = FALSE
            /\ IF outcome = "success"
               THEN /\ submissions' = OrEmpty(r)
                    /\ UNCHANGED error
               ELSE /\ error' = ErrorMessage(outcome)
                    /\ UNCHANGED submissions
       ELSE UNCHANGED <<submissions, loading, error>>
    /\ last' = Log("querySubmission", outcome)
    /\ UNCHANGED <<tabMounted, problemId, currentUser, fetchCount, tabRest>>

\* The tab goes away; nothing cancels a request.
UnmountTab ==
    /\ tabMounted
    /\ tabMounted' = FALSE
    /\ fetches' = MarkCallsDead(fetches)
    /\ last' = Log("unmountTab", "none")
    /\ UNCHANGED <<problemId, currentUser, submissions, loading, error,
                   fetchCount, tabRest>>

\* The page shows the tab for some problem; its first fetch is under way.
FetchInit ==
    /\ mounted = TRUE
    /\ LayoutIdle
    /\ EntryDone
    /\ SubmitIdle
    /\ SocketIdle
    /\ SecurityIdle
    /\ allowedLanguages = <<>>
    /\ tabMounted = TRUE
    /\ problemId \in ProblemIds
    /\ currentUser \in Users
    /\ submissions = <<>>
    /\ loading = TRUE
    /\ error = "null"
    /\ fetches = << [id |-> 1, query |-> Query(problemId, currentUser),
                     live |-> TRUE] >>
    /\ fetchCount = 1

FetchNext ==
    \/ \E p \in ProblemIds : MountTab(p)
    \/ \E p \in ProblemIds : ChangeProblemId(p)
    \/ \E u \in Users : ChangeCurrentUser(u)
    \/ \E i \in 1..MaxFetches,
          outcome \in {"success", "requestError", "responseError", "thrown"},
          r \in UNION {Responses(Query(p, u)) : p \in ProblemIds, u \in Users} :
          QuerySettles(i, outcome, r)
    \/ UnmountTab

FetchSpec == FetchInit /\ [][FetchNext]_vars

\* ------------------------------------------------------------ useSocket
\* What a step of the hook leaves alone besides its own state.
socketRest ==
    <<mounted, layoutRest, entryVars, submitVars, tabVars, securityVars,
      allowedLanguages>>

\* SocketIO(...), the four on(...) registrations and onInit(socket): the
\* socket starts to connect by itself.
NewSocket ==
    [status |-> "connecting", connectHandlers |-> 1, onInit |-> 1,
     onConnect |-> 0]

\* The body of the effect, run once after the first render with the value
\* u of useOrNot: the sockets that exist afterwards.
UseSocketEffect(u, ss) == IF u THEN Append(ss, NewSocket) ELSE ss

\* A cleanup that leaves the socket connected.
Cleanup_KeepsSocket(ref, ss) == ss

\* The cleanup the effect returned (there is one exactly when the effect
\* set refSocket.current).
Cleanup(ref, ss) ==
    IF ref # 0 THEN [ss EXCEPT ![ref].status = "disconnected"] ELSE ss

\* A component that calls useSocket(…, u) is mounted: the first render
\* returns refSocket.current, still null, then the effect runs.
MountHook(u) ==
    /\ ~hookMounted
    /\ u => Len(sockets) < MaxSockets
    /\ hookMounted' = TRUE
    /\ useOrNot' = u
    /\ hookReturned' = 0
    /\ sockets' = UseSocketEffect(u, sockets)
    /\ refSocket' = IF Len(sockets') > Len(sockets) THEN Len(sockets') ELSE 0
    /\ last' = Log("mountHook", IF u THEN "socket" ELSE "none")
    /\ UNCHANGED socketRest

\* The component renders again, with u for useOrNot: the effect has no
\* dependencies and does not run, the hook returns refSocket.current.
RenderHook(u) ==
    /\ hookMounted
    /\ useOrNot' = u
    /\ hookReturned' = refSocket
    /\ <<useOrNot', hookReturned'>> # <<useOrNot, hookReturned>>
    /\ last' = Log("renderHook", "none")
    /\ UNCHANGED <<hookMounted, refSocket, sockets, socketRest>>

\* The component is unmounted: the cleanup of the effect runs.
UnmountHook ==
    /\ hookMounted
    /\ hookMounted' = FALSE
    /\ sockets' = Cleanup(refSocket, sockets)
    /\ last' = Log("unmountHook", "none")
    /\ UNCHANGED <<useOrNot, refSocket, hookReturned, socketRest>>

\* The connection of socket s is established: its connect handler runs
\* onConnect.
SocketConnects(s) ==
    /\ s \in 1..Len(sockets)
    /\ sockets[s].status = "connecting"
    /\ sockets[s].onConnect < MaxConnects
    /\ sockets' = [sockets EXCEPT ![s].status = "connected",
                                  ![s].onConnect = @ + sockets[s].connectHandlers]
    /\ last' = Log("connect", "none")
    /\ UNCHANGED <<hookMounted, useOrNot, refSocket, hookReturned,
                   socketRest>>

\* The connection of socket s is lost: the socket tries to reconnect.
SocketDrops(s) ==
    /\ s \in 1..Len(sockets)
    /\ sockets[s].status = "connected"
    /\ sockets' = [sockets EXCEPT ![s].status = "connecting"]
    /\ last' = Log("disconnect", "transport close")
    /\ UNCHANGED <<hookMounted, useOrNot, refSocket, hookReturned,
                   socketRest>>

SocketInit ==
    /\ mounted = TRUE
    /\ LayoutIdle
    /\ EntryDone
    /\ SubmitIdle
    /\ TabIdle
    /\ SocketIdle
    /\ SecurityIdle
    /\ allowedLanguages = <<>>

SocketNext ==
    \/ \E u \in BOOLEAN : MountHook(u)
    \/ \E u \in BOOLEAN : RenderHook(u)
    \/ UnmountHook
    \/ \E s \in 1..MaxSockets + 1 : SocketConnects(s)
    \/ \E s \in 1..MaxSockets + 1 : SocketDrops(s)

SocketSpec == SocketInit /\ [][SocketNext]_vars

\* ------------------------------------------------------ the security view
\* What a step of the security view leaves alone outside the view.
securityRest ==
    <<mounted, layoutRest, entryVars, submitVars, tabVars, socketVars,
      allowedLanguages>>

\* What a step of the email section leaves alone besides its own state.
emailRest == <<sessionVars, securityRest>>

Codes6 == {"", "123456"}

\* useAsyncCallbackPending: the wrapped callback runs unless a call of it is
\* pending.
AsyncCallbackRuns(pending) == ~pending

\* One API request of the view that has not been answered, with the values
\* its callback closed over.
Request(kind, e, code) ==
    [kind |-> kind, email |-> e, code |-> code, live |-> TRUE]

\* A tick that goes on below zero.
TickTimeout_Unguarded(timeout) == timeout - 1

\* timeout => timeout && timeout - 1
TickTimeout(timeout) == IF timeout # 0 THEN timeout - 1 ELSE timeout

\* A click on the send button, which is disabled while the counter is not
\* 0, with what useFieldCheckSimple says about the email.
OnSendEmailVerificationCode(emailInvalid) ==
    /\ securityMounted
    /\ sendEmailVerificationCodeTimeout = 0
    /\ IF ~AsyncCallbackRuns(sendEmailVerificationCodePending)
       THEN /\ last' = Log("onSendEmailVerificationCode", "returned")
            /\ UNCHANGED <<sendEmailVerificationCodePending, requests>>
       ELSE IF emailInvalid \/ email = currentUserEmail
            THEN /\ last' = Log("onSendEmailVerificationCode", "nothing")
                 /\ UNCHANGED <<sendEmailVerificationCodePending, requests>>
            ELSE /\ sendEmailVerificationCodePending' = TRUE
                 /\ requests' = Append(requests, Request("send", email, ""))
                 /\ last' = Log("onSendEmailVerificationCode", "requested")
    /\ UNCHANGED <<securityMounted, currentUserEmail, email,
                   emailVerificationCode, emailVerificationCodeError,
                   duplicateEmail, sendEmailVerificationCodeTimeout,
                   pendingChangeEmail, emailRest>>

\* api.auth.sendEmailVerificationCode has answered the i-th request.
SendSettles(i, outcome) ==
    /\ i \in 1..Len(requests)
    /\ requests[i].kind = "send"
    /\ requests' = RemoveCall(requests, i)
    /\ IF requests[i].live
       THEN /\ sendEmailVerificationCodePending' = FALSE
            /\ duplicateEmail' =
                  IF outcome = "DUPLICATE_EMAIL" THEN TRUE ELSE duplicateEmail
            /\ sendEmailVerificationCodeTimeout' =
                  IF outcome = "success" THEN CooldownStart
                  ELSE sendEmailVerificationCodeTimeout
       ELSE UNCHANGED <<sendEmailVerificationCodePending, duplicateEmail,
                        sendEmailVerificationCodeTimeout>>
    /\ last' = Log("sendEmailVerificationCode", outcome)
    /\ UNCHANGED <<securityMounted, currentUserEmail, email,
                   emailVerificationCode, emailVerificationCodeError,
                   pendingChangeEmail, emailRest>>

\* The callback of setInterval(…, 1000) runs.
Tick ==
    /\ securityMounted
    /\ sendEmailVerificationCodeTimeout' =
          TickTimeout(sendEmailVerificationCodeTimeout)
    /\ last' = Log("tick", "none")
    /\ UNCHANGED <<securityMounted, currentUserEmail, email,
                   emailVerificationCode, emailVerificationCodeError,
                   duplicateEmail, sendEmailVerificationCodePending,
                   pendingChangeEmail, requests, emailRest>>

\* onChange of the email input
SetEmail(value) ==
    /\ securityMounted
    /\ ~pendingChangeEmail
    /\ email' = value
    /\ duplicateEmail' = FALSE
    /\ last' = Log("setEmail", "none")
    /\ UNCHANGED <<securityMounted, currentUserEmail, emailVerificationCode,
                   emailVerificationCodeError,
                   sendEmailVerificationCodeTimeout,
                   sendEmailVerificationCodePending, pendingChangeEmail,
                   requests, emailRest>>

\* onChange of the verification code input
OnChangeVerificationCode(code) ==
    /\ securityMounted
    /\ ~pendingChangeEmail
    /\ emailVerificationCodeError' = FALSE
    /\ emailVerificationCode' = code
    /\ last' = Log("onChangeVerificationCode", "none")
    /\ UNCHANGED <<securityMounted, currentUserEmail, email, duplicateEmail,
                   sendEmailVerificationCodeTimeout,
                   sendEmailVerificationCodePending, pendingChangeEmail,
                   requests, emailRest>>

\* A click on the submit button of the email section.
OnSubmitChangeEmail(emailInvalid) ==
    /\ securityMounted
    /\ IF ~AsyncCallbackRuns(pendingChangeEmail)
       THEN /\ last' = Log("onSubmitChangeEmail", "returned")
            /\ UNCHANGED <<pendingChangeEmail, requests>>
       ELSE IF emailInvalid \/ email = currentUserEmail
            THEN /\ last' = Log("onSubmitChangeEmail", "nothing")
                 /\ UNCHANGED <<pendingChangeEmail, requests>>
            ELSE /\ pendingChangeEmail' = TRUE
                 /\ requests' = Append(requests,
                                       Request("change", email,
                                               emailVerificationCode))
                 /\ last' = Log("onSubmitChangeEmail", "requested")
    /\ UNCHANGED <<securityMounted, currentUserEmail, email,
                   emailVerificationCode, emailVerificationCodeError,
                   duplicateEmail, sendEmailVerificationCodeTimeout,
                   sendEmailVerificationCodePending, emailRest>>

\* api.user.updateUserSelfEmail has answered the i-th request.
ChangeSettles(i, outcome) ==
    /\ i \in 1..Len(requests)
    /\ requests[i].kind = "change"
    /\ requests' = RemoveCall(requests, i)
    /\ currentUserEmail' =
          IF outcome = "success" THEN requests[i].email ELSE currentUserEmail
    /\ IF requests[i].live
       THEN /\ pendingChangeEmail' = FALSE
            /\ duplicateEmail' =
                  IF outcome = "DUPLICATE_EMAIL" THEN TRUE ELSE duplicateEmail
            /\ emailVerificationCodeError' =
                  CASE outcome = "INVALID_EMAIL_VERIFICATION_CODE" -> TRUE
                    [] outcome = "success" -> FALSE
                    [] OTHER -> emailVerificationCodeError
            /\ emailVerificationCode' =
                  IF outcome = "success" THEN "" ELSE emailVerificationCode
            /\ sendEmailVerificationCodeTimeout' =
                  IF outcome = "success" THEN 0
                  ELSE sendEmailVerificationCodeTimeout
       ELSE UNCHANGED <<pendingChangeEmail, duplicateEmail,
                        emailVerificationCodeError, emailVerificationCode,
                        sendEmailVerificationCodeTimeout>>
    /\ last' = Log("updateUserSelfEmail", outcome)
    /\ UNCHANGED <<securityMounted, email, sendEmailVerificationCodePending,
                   emailRest>>

\* The view goes away: the interval is cleared, the requests go on.
UnmountSecurity ==
    /\ securityMounted
    /\ Len(requests) <= MaxOrphans
    /\ securityMounted' = FALSE
    /\ requests' = MarkCallsDead(requests)
    /\ last' = Log("unmountSecurity", "none")
    /\ UNCHANGED <<emailVars, sessionVars, securityRest>>

\* The view is rendered again for the current user, whose sessions are now
\* ss: its state starts from the initial values.
MountSecurity(cur, ss) ==
    /\ ~securityMounted
    /\ securityMounted' = TRUE
    /\ currentSessionId' = cur
    /\ sessions' = ss
    /\ revokeAllPopupOpen' = FALSE
    /\ revokePending' = FALSE
    /\ email' = currentUserEmail
    /\ emailVerificationCode' = ""
    /\ emailVerificationCodeError' = FALSE
    /\ duplicateEmail' = FALSE
    /\ sendEmailVerificationCodeTimeout' = 0
    /\ sendEmailVerificationCodePending' = FALSE
    /\ pendingChangeEmail' = FALSE
    /\ last' = Log("mountSecurity", "none")
    /\ UNCHANGED <<currentUserEmail, requests, securityRest>>

CooldownInit ==
    /\ mounted = TRUE
    /\ LayoutIdle
    /\ EntryDone
    /\ SubmitIdle
    /\ TabIdle
    /\ SocketIdle
    /\ allowedLanguages = <<>>
    /\ securityMounted = TRUE
    /\ EmailIdle
    /\ SessionsShown(1, {1})
    /\ requests = <<>>

SendOutcomes == {"requestError", "DUPLICATE_EMAIL", "otherError", "success"}
ChangeOutcomes ==
    {"requestError", "DUPLICATE_EMAIL", "INVALID_EMAIL_VERIFICATION_CODE",
     "otherError", "success"}

CooldownNext ==
    \/ \E emailInvalid \in BOOLEAN : OnSendEmailVerificationCode(emailInvalid)
    \/ \E i \in 1..MaxOrphans + 3, outcome \in SendOutcomes :
          SendSettles(i, outcome)
    \/ Tick
    \/ \E value \in Emails : SetEmail(value)
    \/ \E code \in Codes6 : OnChangeVerificationCode(code)
    \/ \E emailInvalid \in BOOLEAN : OnSubmitChangeEmail(emailInvalid)
    \/ \E i \in 1..MaxOrphans + 3, outcome \in ChangeOutcomes :
          ChangeSettles(i, outcome)
    \/ UnmountSecurity
    \/ MountSecurity(1, {1})

CooldownSpec == CooldownInit /\ [][CooldownNext]_vars

\* ------------------------------------------- security view: the sessions
\* What a step of the session section leaves alone besides its own state.
sessionRest == <<emailVars, securityRest>>

\* The revoke-all popup is rendered.
RevokeAllOffered(cur, ss) == \E s \in ss : s # cur

\* The sessions with a revoke button of their own.
RevokeOffered(cur, ss) == {s \in ss : cur # s}

\* A revoke-all after which the list is empty.
SessionsAfterRevoke_NoneLeft(ss, sessionId, cur) ==
    IF sessionId = 0 THEN {} ELSE {s \in ss : s # sessionId}

\* The list setSessions gets after a successful revoke of sessionId (0 for
\* none given: all sessions) from the list ss the callback closed over.
SessionsAfterRevoke(ss, sessionId, cur) ==
    IF sessionId = 0 THEN {s \in ss : s = cur}
    ELSE {s \in ss : s # sessionId}

\* onOpen / onClose of the revoke-all popup
SetRevokeAllPopupOpen(open) ==
    /\ securityMounted
    /\ RevokeAllOffered(currentSessionId, sessions)
    /\ open # revokeAllPopupOpen
    /\ revokeAllPopupOpen' = open
    /\ last' = Log("setRevokeAllPopupOpen", IF open THEN "open" ELSE "close")
    /\ UNCHANGED <<securityMounted, currentSessionId, sessions, revokePending,
                   requests, sessionRest>>

\* A click on a confirm button: of the session sessionId, or of the
\* revoke-all popup (sessionId 0).
OnRevokeSession(sessionId) ==
    /\ securityMounted
    /\ IF sessionId = 0
       THEN RevokeAllOffered(currentSessionId, sessions) /\ revokeAllPopupOpen
       ELSE sessionId \in RevokeOffered(currentSessionId, sessions)
    /\ IF ~AsyncCallbackRuns(revokePending)
       THEN /\ last' = Log("onRevokeSession", "returned")
            /\ UNCHANGED <<revokePending, requests>>
       ELSE /\ revokePending' = TRUE
            /\ requests' = Append(requests,
                                  [kind |-> "revoke", sessionId |-> sessionId,
                                   sessions |-> sessions, live |-> TRUE])
            /\ last' = Log("onRevokeSession", "requested")
    /\ UNCHANGED <<securityMounted, currentSessionId, sessions,
                   revokeAllPopupOpen, sessionRest>>

\* api.auth.revokeUserSession has answered the i-th request.
RevokeSettles(i, outcome) ==
    /\ i \in 1..Len(requests)
    /\ requests[i].kind = "revoke"
    /\ requests' = RemoveCall(requests, i)
    /\ IF requests[i].live
       THEN /\ sessions' =
                  IF outcome = "success"
                  THEN SessionsAfterRevoke(requests[i].sessions,
                                           requests[i].sessionId,
                                           currentSessionId)
                  ELSE sessions
            /\ revokeAllPopupOpen' = FALSE
            /\ revokePending' = FALSE
       ELSE UNCHANGED <<sessions, revokeAllPopupOpen, revokePending>>
    /\ last' = Log("revokeUserSession", outcome)
    /\ UNCHANGED <<securityMounted, currentSessionId, sessionRest>>

\* The lists of sessions a view can be given: the session of the browser,
\* when passed, is one of them.
SessionLists(cur) == {ss \in SUBSET SessionIds : cur # 0 => cur \in ss}

SessionsInit ==
    /\ mounted = TRUE
    /\ LayoutIdle
    /\ EntryDone
    /\ SubmitIdle
    /\ TabIdle
    /\ SocketIdle
    /\ allowedLanguages = <<>>
    /\ securityMounted = TRUE
    /\ EmailIdle
    /\ \E cur \in {0, 1} : \E ss \in SessionLists(cur) : SessionsShown(cur, ss)
    /\ requests = <<>>

RevokeOutcomes == {"requestError", "responseError", "success"}

SessionsNext ==
    \/ \E open \in BOOLEAN : SetRevokeAllPopupOpen(open)
    \/ \E sessionId \in {0} \cup SessionIds : OnRevokeSession(sessionId)
    \/ \E i \in 1..MaxOrphans + 3, outcome \in RevokeOutcomes :
          RevokeSettles(i, outcome)
    \/ UnmountSecurity
    \/ \E cur \in {0, 1} : \E ss \in SessionLists(cur) : MountSecurity(cur, ss)

SessionsSpec == SessionsInit /\ [][SessionsNext]_vars

\* ------------------------------------- the traditional problem submit view
\* Languages of a submission content, "" for a missing one.
CodeLanguages == {"", "cpp", "cuda", "python"}

\* getPreferredCompileAndRunOptions(language)
GetPreferredCompileAndRunOptions(language) == <<"preferred", language>>

\* The compile-and-run options of a content: those preferred for some
\* language, or options the user has set.
Options ==
    {GetPreferredCompileAndRunOptions(l) : l \in {"cpp", "cuda", "python"}}
       \cup {<<"custom", "">>}

\* The languages for which judgeInfo.extraSourceFiles has files or flags,
\* in the order of CodeLanguage.
AllowedLanguageLists ==
    {<<>>, <<"cuda">>, <<"cpp", "cuda">>, <<"cpp", "python">>}

\* allowedLanguages.includes(language)
Includes(list, language) == \E i \in 1..Len(list) : list[i] = language

\* The effect has nothing to do for this language.
LanguageSettled(allowed, language) ==
    \/ Len(allowed) = 0
    \/ language # "" /\ Includes(allowed, language)

\* The effect of TraditionalProblemSubmitView.  Its dependencies hold
\* props.onUpdateSubmissionContent, a new function at every render of the
\* page, so it runs after every render.  Past the two early returns it calls
\* onUpdateSubmissionContent twice and then props.setModified(false); the
\* page passes no setModified, the call throws a TypeError inside the
\* effect and React takes the page down with the updates still queued.
LanguageEffect ==
    /\ mounted
    /\ IF LanguageSettled(allowedLanguages, submissionContent.language)
       THEN /\ last' = Log("languageEffect", "returned")
            /\ UNCHANGED <<mounted, calls>>
       ELSE /\ mounted' = FALSE
            /\ calls' = MarkCallsDead(calls)
            /\ last' = Log("languageEffect", "TypeError")
    /\ UNCHANGED <<initialSubmissionContent, submissionContent, modified,
                   effectDue, submitPending, submitCount, layoutRest,
                   entryVars, viewVars>>

\* A page is mounted for a problem with its allowed languages; the initial
\* content is the last submission or the default content.
LanguageInit ==
    /\ mounted = TRUE
    /\ LayoutIdle
    /\ EntryDone
    /\ TabIdle
    /\ SocketIdle
    /\ SecurityIdle
    /\ allowedLanguages \in AllowedLanguageLists
    /\ initialSubmissionContent \in
          [language : CodeLanguages, code : Codes,
           compileAndRunOptions : Options]
    /\ submissionContent = initialSubmissionContent
    /\ modified = FALSE
    /\ effectDue = TRUE
    /\ submitPending = FALSE
    /\ calls = <<>>
    /\ submitCount = 0

LanguageNext ==
    \/ LanguageEffect
    \/ /\ LanguageSettled(allowedLanguages, submissionContent.language)
       /\ \/ \E value \in CodeLanguages \ {""} :
                /\ LanguageSettled(allowedLanguages, value)
                /\ UpdateSubmissionContent("language", value)
          \/ \E value \in Options :
                UpdateSubmissionContent("compileAndRunOptions", value)
          \/ \E value \in Codes : UpdateSubmissionContent("code", value)
    \/ ModifiedEffect
    \/ NavigateAway
    \/ \E content \in [language : CodeLanguages, code : Codes,
                       compileAndRunOptions : Options] : MountPage(content)

LanguageSpec == LanguageInit /\ [][LanguageNext]_vars

\* ================================================================ claims
LiveSessions(kind) ==
    {i \in 1..Len(listeners) : listeners[i].kind = kind /\ listeners[i].live}

\* C1: once the page is unmounted no drag listener is left on the window,
\* so no later mouse-move or mouse-up invokes a handler of a session started
\* before the unmount.
C1_UnmountLeavesNoListeners == ~mounted => listeners = <<>>

\* C2: in every reachable state leftWidthPercentage is a finite number in
\* [0, 100]: never NaN, never an infinity, never outside the range.
C2_LeftWidthInRange ==
    /\ leftWidthPercentage.k = "num"
    /\ leftWidthPercentage.n >= 0
    /\ leftWidthPercentage.n <= 100 * leftWidthPercentage.d

\* A drag of the divider has stored a percentage other than the default.
C2_Witness ==
    /\ last.op = "onMouseMove" /\ last.outcome = "inside"
    /\ isResizing
    /\ leftWidthPercentage # Num(DefaultLeftWidth, 1)

\* C3: in every reachable state bottomPanelHeight lies in [30, 600], and it
\* is exactly 30 whenever isBottomCollapsed is true.
C3_BottomHeightInDomain ==
    /\ bottomPanelHeight >= 30
    /\ bottomPanelHeight <= 600
    /\ isBottomCollapsed => bottomPanelHeight = 30

\* A move of a bottom drag computed a height of 600 or more.
C3_Witness ==
    /\ last.op = "onMouseMoveBottom" /\ last.outcome = "above"
    /\ isResizingBottom

\* C4: when the onMouseMove of a bottom drag whose frame exists computes a
\* height below 30, the frame holds height 30 and isBottomCollapsed = TRUE
\* once the handler has run, whatever it held before.
C4_BelowFloorCollapses ==
    [][ (/\ dispatch.type = "mousemove"
         /\ SessionOf(Head(dispatch.pending)).kind = "bottom"
         /\ SessionOf(Head(dispatch.pending)).live
         /\ SessionOf(Head(dispatch.pending)).startHeight
              + SessionOf(Head(dispatch.pending)).startY - dispatch.y < 30)
        => (bottomPanelHeight' = 30 /\ isBottomCollapsed' = TRUE) ]_vars

\* A move of a bottom drag computed a height below 30 and collapsed a panel
\* that the drag had found expanded.
C4_Witness ==
    /\ last.op = "onMouseMoveBottom" /\ last.outcome = "below"
    /\ isBottomCollapsed /\ bottomPanelHeight = 30
    /\ \E i \in LiveSessions("bottom") : listeners[i].startHeight > 30

\* C5: the onMouseUp of a session removes that session's listeners and
\* clears the resizing flag of its resizer in one step; when the mouse-up has
\* been dispatched no listener is left, and a mouse-move received while no
\* listener is registered invokes no handler and leaves leftWidthPercentage,
\* bottomPanelHeight and isBottomCollapsed unchanged.
C5_MouseUpReleasesSession ==
    [][ /\ dispatch.type = "mouseup" =>
            LET s == SessionOf(Head(dispatch.pending))
            IN  /\ s.id \notin Ids(listeners')
                /\ (s.live /\ s.kind = "left") => ~isResizing'
                /\ (s.live /\ s.kind = "bottom") => ~isResizingBottom'
        /\ (dispatch.type = "mouseup" /\ dispatch'.type = "none") =>
            listeners' = <<>>
        /\ listeners = <<>> =>
            /\ last'.op \notin {"onMouseMove", "onMouseMoveBottom"}
            /\ last'.op = "mousemove" =>
                 /\ dispatch' = NoDispatch
                 /\ UNCHANGED <<leftWidthPercentage, bottomPanelHeight,
                                isBottomCollapsed>> ]_vars

\* The mouse-up of a drag has been handled: the session is gone and the flag
\* is down.
C5_Witness ==
    /\ last.op \in {"onMouseUp", "onMouseUpBottom"}
    /\ listeners = <<>> /\ dispatch = NoDispatch
    /\ ~isResizing /\ ~isResizingBottom
    /\ mounted

\* C6: a resizing flag is true only while a session of that resizer, of the
\* instance that owns the flag, is registered: it is false again once the
\* session has ended, also when the owning component was unmounted.
C6_FlagOnlyWhileSessionActive ==
    /\ isResizing => LiveSessions("left") # {}
    /\ isResizingBottom => LiveSessions("bottom") # {}

\* C7: a resizer never has more than one session (one onMouseMove/onMouseUp
\* pair) registered on the window.
C7_AtMostOneSessionPerResizer ==
    /\ Cardinality(LiveSessions("left")) <= 1
    /\ Cardinality(LiveSessions("bottom")) <= 1

\* C8: running the onMouseUp of a session again after it has run changes
\* nothing: the removal of its listeners removes no registered listener, the
\* flag it clears is left as it is, and the handler does not touch
\* leftWidthPercentage, bottomPanelHeight or isBottomCollapsed.
C8_EndIsIdempotent ==
    [][ dispatch.type = "mouseup" =>
            LET s == SessionOf(Head(dispatch.pending))
            IN  /\ RemoveEventListeners(listeners', s.id) = listeners'
                /\ s.kind = "left" =>
                     OnMouseUpFlag(isResizing', s.live) = isResizing'
                /\ s.kind = "bottom" =>
                     OnMouseUpFlag(isResizingBottom', s.live)
                       = isResizingBottom'
                /\ UNCHANGED <<leftWidthPercentage, bottomPanelHeight,
                               isBottomCollapsed>> ]_vars

\* The onMouseUp of one session has run while the listeners of another
\* session are still registered.
C8_Witness ==
    /\ last.op \in {"onMouseUp", "onMouseUpBottom"}
    /\ dispatch.type = "mouseup"
    /\ listeners # <<>>

\* C9: when the onMouseMove of a divider drag computes a percentage outside
\* [0, 100], leftWidthPercentage keeps the value it had, and the session
\* stays registered with its flag unchanged.
C9_OutOfRangeRejected ==
    [][ (/\ last'.op = "onMouseMove"
         /\ last'.outcome \in {"below", "above", "+Inf", "-Inf"})
        => /\ leftWidthPercentage' = leftWidthPercentage
           /\ Head(dispatch.pending) \in Ids(listeners')
           /\ isResizing' = isResizing ]_vars

\* A divider drag that had stored a percentage other than the default
\* computed a finite percentage outside [0, 100].
C9_Witness ==
    /\ last.op = "onMouseMove" /\ last.outcome \in {"below", "above"}
    /\ leftWidthPercentage # Num(DefaultLeftWidth, 1)
    /\ isResizing

\* C10: when the onMouseMove of a divider drag runs while the container has
\* zero width or is absent, the handler completes and leftWidthPercentage is
\* unchanged, also when the pointer is on the container's left edge.
C10_ZeroWidthIsNoOp ==
    [][ (/\ last'.op = "onMouseMove"
         /\ last'.outcome \in {"NaN", "+Inf", "-Inf", "absent"})
        => /\ leftWidthPercentage' = leftWidthPercentage
           /\ dispatch' = Advance(dispatch) ]_vars

\* A divider drag handled a move with the pointer on the left edge of a
\* container of zero width.
C10_Witness ==
    /\ last.op = "onMouseMove" /\ last.outcome = "NaN"
    /\ mounted /\ ~isMobile

\* C11: when the onMouseMove of a bottom drag whose frame exists computes a
\* height of 600 or more, bottomPanelHeight and isBottomCollapsed are left
\* exactly as they were: the height is not clamped to 600 and the flag is
\* not touched.
C11_AtOrAboveMaxHolds ==
    [][ (/\ dispatch.type = "mousemove"
         /\ SessionOf(Head(dispatch.pending)).kind = "bottom"
         /\ SessionOf(Head(dispatch.pending)).live
         /\ SessionOf(Head(dispatch.pending)).startHeight
              + SessionOf(Head(dispatch.pending)).startY - dispatch.y >= 600)
        => UNCHANGED <<bottomPanelHeight, isBottomCollapsed>> ]_vars

\* A bottom drag begun at height 120 with the pointer at 580 handled a move
\* that computed exactly 600, and the panel still has its height of 120.
C11_Witness ==
    /\ last.op = "onMouseMoveBottom" /\ last.outcome = "above"
    /\ bottomPanelHeight = 120 /\ ~isBottomCollapsed
    /\ Len(listeners) = 1
    /\ \E i \in LiveSessions("bottom") :
          listeners[i].startHeight = 120 /\ listeners[i].startY = 580

\* C12: a bottom drag starts from the panel height and the pointer Y of its
\* mouse-down, and every move of it whose computed height startHeight +
\* (startY - clientY) is at least 30 and below 600 stores exactly that height
\* and sets isBottomCollapsed = FALSE, whatever the panel held before the
\* move.
C12_WithinRangeStoresComputed ==
    [][ /\ last'.op = "startResizingBottom" =>
            /\ listeners'[Len(listeners')].startHeight = bottomPanelHeight
            /\ listeners'[Len(listeners')].startY \in StartYs
        /\ (/\ dispatch.type = "mousemove"
            /\ SessionOf(Head(dispatch.pending)).kind = "bottom"
            /\ SessionOf(Head(dispatch.pending)).live
            /\ SessionOf(Head(dispatch.pending)).startHeight
                 + SessionOf(Head(dispatch.pending)).startY - dispatch.y >= 30
            /\ SessionOf(Head(dispatch.pending)).startHeight
                 + SessionOf(Head(dispatch.pending)).startY - dispatch.y < 600)
           => /\ bottomPanelHeight' =
                   SessionOf(Head(dispatch.pending)).startHeight
                    + SessionOf(Head(dispatch.pending)).startY - dispatch.y
              /\ isBottomCollapsed' = FALSE ]_vars

\* A bottom drag begun at height 120 with the pointer at 300 has stored 320
\* and the panel is expanded.
C12_Witness ==
    /\ last.op = "onMouseMoveBottom" /\ last.outcome = "within"
    /\ bottomPanelHeight = 320 /\ ~isBottomCollapsed
    /\ \E i \in LiveSessions("bottom") :
          listeners[i].startHeight = 120 /\ listeners[i].startY = 300

\* C13: when the onMouseMove of a divider drag reads a container of non-zero
\* width and the pointer lies between the container's left and right edge,
\* leftWidthPercentage becomes exactly ((clientX - left) / width) * 100 for
\* the clientX of that move and the bounds read at that move, whatever it
\* held before; a percentage of 0 makes isLeftCollapsed true.
C13_InRangeStoresAbsolute ==
    [][ (/\ last'.op = "onMouseMove"
         /\ last'.outcome # "absent"
         /\ last'.b.width > 0
         /\ dispatch.x - last'.b.left >= 0
         /\ dispatch.x - last'.b.left <= last'.b.width)
        => /\ leftWidthPercentage'.k = "num"
           /\ leftWidthPercentage'.n * last'.b.width
                = 100 * (dispatch.x - last'.b.left) * leftWidthPercentage'.d
           /\ (dispatch.x = last'.b.left) =>
                 (leftWidthPercentage'.n = 0
                  /\ IsLeftCollapsed(leftWidthPercentage')) ]_vars

\* A divider drag read a container of width 1000 at 0 with the pointer at
\* 0: the percentage is 0 and the left side is collapsed.
C13_Witness ==
    /\ last.op = "onMouseMove" /\ last.outcome = "inside"
    /\ last.b = [left |-> 0, width |-> 1000]
    /\ leftWidthPercentage = Num(0, 1)
    /\ isLeftCollapsed

\* C14: every call of toggleBottomCollapse negates isBottomCollapsed, so a
\* second call gives the flag its value of before the first, and a call that
\* collapses the panel leaves its height at exactly 30.
C14_ToggleNegatesFlag ==
    [][ last'.op = "toggleBottomCollapse" =>
            /\ isBottomCollapsed' = ~isBottomCollapsed
            /\ ToggleBottom(isBottomCollapsed').collapsed = isBottomCollapsed
            /\ isBottomCollapsed' => bottomPanelHeight' = 30 ]_vars

\* toggleBottomCollapse has collapsed the panel.
C14_Witness ==
    /\ last.op = "toggleBottomCollapse"
    /\ isBottomCollapsed /\ bottomPanelHeight = 30

\* C15: a call of toggleBottomCollapse made while the panel is collapsed
\* leaves the height at the default of the device, 240 when the viewport is
\* classified narrow and 120 otherwise, and clears isBottomCollapsed.
C15_RestoresDeviceDefault ==
    [][ (last'.op = "toggleBottomCollapse" /\ isBottomCollapsed) =>
            /\ bottomPanelHeight' = IF isMobile THEN 240 ELSE 120
            /\ isBottomCollapsed' = FALSE ]_vars

\* C16: restoreLeft and restoreRight each leave leftWidthPercentage at
\* exactly 50, whatever it was and whichever side was collapsed, so that
\* neither side is collapsed afterwards.
C16_RestoreSetsMidpoint ==
    [][ last'.op \in {"restoreLeft", "restoreRight"} =>
            /\ leftWidthPercentage' = [k |-> "num", n |-> 50, d |-> 1]
            /\ ~IsLeftCollapsed(leftWidthPercentage')
            /\ ~IsRightCollapsed(leftWidthPercentage') ]_vars

\* restoreRight has brought a collapsed right side back: the divider is
\* rendered again.
C16_Witness ==
    /\ last.op = "restoreRight"
    /\ leftWidthPercentage = Num(DefaultLeftWidth, 1)
    /\ DividerRendered

\* C17: in every reachable state isLeftCollapsed is true exactly when
\* leftWidthPercentage is below 2 and isRightCollapsed exactly when it is
\* above 98; the two are never true together, a percentage of exactly 2 or
\* exactly 98 collapses neither side, and the divider of the desktop layout
\* is rendered exactly when neither side is collapsed.
C17_CollapsedDerivedFromWidth ==
    /\ leftWidthPercentage.k = "num"
    /\ isLeftCollapsed <=>
          leftWidthPercentage.n < 2 * leftWidthPercentage.d
    /\ isRightCollapsed <=>
          leftWidthPercentage.n > 98 * leftWidthPercentage.d
    /\ ~(isLeftCollapsed /\ isRightCollapsed)
    /\ (mounted /\ ~isMobile) =>
          (DividerRendered <=>
             /\ leftWidthPercentage.n >= 2 * leftWidthPercentage.d
             /\ leftWidthPercentage.n <= 98 * leftWidthPercentage.d)

\* A divider drag has stored exactly 2: the left side is not collapsed and
\* the divider is still rendered.
C17_Witness ==
    /\ last.op = "onMouseMove" /\ last.outcome = "inside"
    /\ leftWidthPercentage = Num(LeftCollapseThreshold, 1)
    /\ ~isLeftCollapsed /\ DividerRendered

\* C18: a touch-start on a resizer begins a drag session as a mouse-down
\* does, and a touch-move received while a session is registered is handled
\* by that session as a mouse-move is.
C18_TouchBeginsAndDrivesSession ==
    [][ /\ last'.op = "touchstart" =>
            /\ Len(listeners') = Len(listeners) + 1
            /\ isResizing' \/ isResizingBottom'
        /\ (last'.op = "touchmove" /\ listeners # <<>>) =>
            dispatch'.type = "touchmove" ]_vars

\* C19: every session registered on the window listens for mouse-move,
\* mouse-up, touch-move and touch-end: no state has a session with only a
\* part of the four registered.
C19_SessionListensOnUnion ==
    \A i \in 1..Len(listeners) :
        listeners[i].events = {"mousemove", "mouseup", "touchmove", "touchend"}

\* C20: when the viewport changes class, and with it the page changes
\* between the desktop layout and the mobile layout, every drag session is
\* ended first: in the first state of the new layout no drag listener is
\* registered and isResizing and isResizingBottom are both false.
C20_ModeSwitchEndsSessions ==
    [][ last'.op = "viewportResize" =>
            /\ listeners' = <<>>
            /\ ~isResizing'
            /\ ~isResizingBottom' ]_vars

\* C21: while the viewport is classified mobile no drag can be begun: neither
\* startResizing nor startResizingBottom runs, with the overlay editor open
\* or closed.
C21_NoDragStartWhileMobile ==
    [][ isMobile =>
            last'.op \notin {"startResizing", "startResizingBottom"} ]_vars

\* C22: when the viewport crosses the breakpoint while the bottom panel has
\* a default height, the frame rendered after the crossing has the default
\* height of the new class: 240 after a crossing to narrow, 120 after a
\* crossing to wide.
C22_CrossingReevaluatesDefault ==
    [][ (/\ last'.op = "viewportResize"
         /\ bottomPanelHeight \in {120, 240}
         /\ frameSlot' # "none"
         /\ ~isBottomCollapsed')
        => bottomPanelHeight' = IF isMobile' THEN 240 ELSE 120 ]_vars

\* C23: a bottom panel height set by a drag survives a crossing of the
\* breakpoint: a viewport change leaves bottomPanelHeight and
\* isBottomCollapsed as they were.
C23_CustomHeightSurvivesCrossing ==
    [][ (/\ last'.op = "viewportResize"
         /\ bottomPanelHeight # 120
         /\ ~isBottomCollapsed)
        => UNCHANGED <<bottomPanelHeight, isBottomCollapsed>> ]_vars

\* C24: when the page has just been mounted its layout state has the
\* defaults: leftWidthPercentage is 50 and neither side is collapsed,
\* isResizing is false, no drag listener is registered on the window, and the
\* frame it renders has an expanded bottom panel at the default height of the
\* device (240 on a narrow viewport, 120 otherwise) with isResizingBottom
\* false.
C24_MountCreatesDefaults ==
    last.op \in {"init", "mount"} =>
        /\ leftWidthPercentage = [k |-> "num", n |-> 50, d |-> 1]
        /\ ~isLeftCollapsed /\ ~isRightCollapsed
        /\ ~isResizing
        /\ listeners = <<>>
        /\ frameSlot # "none" =>
             /\ ~isBottomCollapsed
             /\ bottomPanelHeight = IF isMobile THEN 240 ELSE 120
             /\ ~isResizingBottom

\* C25: when window.scriptTagsLoaded is defined no app module is evaluated
\* before that promise has resolved, and when it is undefined index.ts does
\* not wait.
C25_AppCodeWaitsForScriptTags ==
    [][ /\ evaluated' # evaluated =>
            scriptTagsLoaded \in {"undefined", "resolved"}
        /\ scriptTagsLoaded = "undefined" => entryPc' # "await" ]_vars

\* C26: one mouse-up reaches the onMouseUp of every session registered at
\* that moment, also of several sessions begun on the same resizer without a
\* mouse-up in between: when its dispatch is over no listener of any of them
\* is left, and the resizing flag of a component that is rendered is false.
C26_OneMouseUpEndsEverySession ==
    [][ /\ last'.op = "mouseup" =>
            Len(dispatch'.pending) = Len(listeners)
        /\ (dispatch.type = "mouseup" /\ dispatch'.type = "none") =>
            /\ listeners' = <<>>
            /\ mounted => ~isResizing'
            /\ frameSlot # "none" => ~isResizingBottom' ]_vars

\* Two sessions of the divider were registered when a mouse-up came: the
\* onMouseUp of the first has run and the second is about to be called.
C26_Witness ==
    /\ last.op = "onMouseUp"
    /\ dispatch.type = "mouseup"
    /\ Len(listeners) = 1
    /\ listeners[1].kind = "left" /\ listeners[1].live
    /\ ~isResizing

\* C27: in the desktop layout, while a side is collapsed and no session of
\* the divider belonging to the page is registered, no drag of the divider
\* can begin; of the actions on the split only the restore of the collapsed
\* side is offered (restoreLeft with the left collapsed, restoreRight with
\* the right collapsed), and a step that changes leftWidthPercentage sets it
\* to exactly 50.
C27_CollapsedOffersOnlyRestore ==
    [][ (/\ mounted /\ ~isMobile
         /\ isLeftCollapsed \/ isRightCollapsed
         /\ LiveSessions("left") = {})
        => /\ last'.op # "startResizing"
           /\ last'.op = "restoreLeft" => isLeftCollapsed
           /\ last'.op = "restoreRight" => isRightCollapsed
           /\ leftWidthPercentage' # leftWidthPercentage =>
                leftWidthPercentage' = [k |-> "num", n |-> 50, d |-> 1] ]_vars

\* A left side collapsed by a drag that has ended was brought back by
\* restoreLeft.
C27_Witness ==
    /\ last.op = "restoreLeft"
    /\ LiveSessions("left") = {}
    /\ nextSession > 1
    /\ leftWidthPercentage = Num(DefaultLeftWidth, 1)
    /\ DividerRendered

\* C28: at no time is more than one submission request issued and not yet
\* answered.
C28_AtMostOneRequestInFlight == Cardinality(InFlight) <= 1

\* C29: whenever submitPending is true on a mounted page it becomes false
\* again (or the page goes away), whatever the outcome of the attempt.
C29_PendingEventuallyCleared ==
    (mounted /\ submitPending) ~> (~submitPending \/ ~mounted)

\* C30: on a mounted page whose effect on modified has run with the current
\* values, modified is false exactly when the submission content equals the
\* initial content or its code is the default code of its language; this
\* also holds after the setModified(false) of a successful submit, once the
\* effect has run again.
C30_ModifiedSettlesToComputed ==
    (mounted /\ ~effectDue) =>
        (modified <=>
           ~(\/ submissionContent = initialSubmissionContent
             \/ submissionContent.code =
                  (IF submissionContent.language = "cuda" THEN "extract"
                   ELSE "")))

\* A successful submit has just set modified to false on a page whose content
\* is neither the initial one nor the default code: the effect is due.
C30_Witness ==
    /\ last.op = "callApiWithFileUpload" /\ last.outcome = "success"
    /\ mounted /\ ~modified /\ effectDue
    /\ submissionContent # initialSubmissionContent
    /\ submissionContent.code # GetDefaultCode(submissionContent.language)

\* The fetches that were started before the most recent one and are still
\* awaited by the mounted tab.
OlderFetches(fs, newest) ==
    {i \in 1..Len(fs) : fs[i].live /\ fs[i].id < newest}

\* C31: the response of a fetch that is older than the most recently started
\* one never overwrites the submissions, the error or the loading state: the
\* step in which such a response arrives leaves all three unchanged.
C31_LatestFetchWins ==
    [][ (last'.op = "querySubmission" /\ Len(fetches') < Len(fetches)
         /\ \E i \in OlderFetches(fetches, fetchCount) :
               fetches' = RemoveCall(fetches, i))
        => UNCHANGED <<submissions, loading, error>> ]_vars

\* C32: a fetch sets loading and clears error when it starts; when it
\* completes loading is false; after a success the list is the response
\* (empty when absent) and error is null; after a failure error is the
\* message and the list is the one shown before.
C32_FetchPaths ==
    [][ /\ fetchCount' # fetchCount => loading' /\ error' = "null"
        /\ (last'.op = "querySubmission" /\ tabMounted
            /\ \E i \in 1..Len(fetches) :
                  fetches[i].live /\ fetches' = RemoveCall(fetches, i))
           => /\ ~loading'
              /\ last'.outcome = "success"
                 => /\ error' = "null"
                    /\ \E i \in 1..Len(fetches) :
                          /\ fetches[i].live
                          /\ fetches' = RemoveCall(fetches, i)
                          /\ submissions' \in
                                {<<>>, << [problemId |->
                                              fetches[i].query.problemId,
                                           submitter |->
                                              fetches[i].query.submitter] >>}
              /\ last'.outcome # "success"
                 => /\ error' = (CASE last'.outcome = "requestError"
                                        -> "requestError(_)"
                                   [] last'.outcome = "responseError"
                                        -> "response.error"
                                   [] last'.outcome = "thrown"
                                        -> "e.message")
                    /\ submissions' = submissions ]_vars

\* C33: a socket is created only by the mount of a hook instance whose
\* useOrNot is true, with one connect handler and one onInit call that stay
\* one; a mounted instance never changes its socket; the unmount
\* disconnects it; an instance mounted with useOrNot false has no socket
\* and the hook returns null.
C33_SocketOncePerInstance ==
    [][ /\ Len(sockets') \in {Len(sockets), Len(sockets) + 1}
        /\ Len(sockets') > Len(sockets)
           => /\ ~hookMounted /\ hookMounted' /\ useOrNot'
              /\ refSocket' = Len(sockets')
              /\ sockets'[refSocket'].connectHandlers = 1
              /\ sockets'[refSocket'].onInit = 1
        /\ (~hookMounted /\ hookMounted' /\ useOrNot')
           => Len(sockets') = Len(sockets) + 1
        /\ (~hookMounted /\ hookMounted' /\ ~useOrNot') => refSocket' = 0
        /\ (hookMounted /\ hookMounted') => refSocket' = refSocket
        /\ (hookMounted /\ ~hookMounted' /\ refSocket # 0)
           => sockets'[refSocket].status = "disconnected"
        /\ \A s \in 1..Len(sockets) :
              /\ sockets'[s].connectHandlers = sockets[s].connectHandlers
              /\ sockets'[s].onInit = sockets[s].onInit
        /\ (hookMounted' /\ refSocket' = 0) => hookReturned' = 0 ]_vars

\* A hook instance that had a connected socket and was rendered with
\* useOrNot false has been unmounted, and its socket is disconnected.
C33_Witness ==
    /\ last.op = "unmountHook"
    /\ ~hookMounted
    /\ ~useOrNot
    /\ refSocket = 2
    /\ hookReturned = 2
    /\ sockets[1].status = "disconnected"
    /\ sockets[2].status = "disconnected"

\* C34: the cooldown counter is an integer in 0..61; a tick takes one off a
\* positive counter and leaves 0 alone; only a successfully sent code sets
\* it to 61 and a successful email change of the view sets it to 0; the send
\* action is taken only while the counter is 0, and is available whenever
\* it is 0.
C34_CooldownCounter ==
    [][ /\ sendEmailVerificationCodeTimeout \in 0..61
        /\ sendEmailVerificationCodeTimeout' \in 0..61
        /\ last'.op = "tick"
           => sendEmailVerificationCodeTimeout' =
                 IF sendEmailVerificationCodeTimeout > 0
                 THEN sendEmailVerificationCodeTimeout - 1 ELSE 0
        /\ (sendEmailVerificationCodeTimeout' = 61
            /\ sendEmailVerificationCodeTimeout # 61)
           => /\ last'.op = "sendEmailVerificationCode"
              /\ last'.outcome = "success"
        /\ (last'.op = "updateUserSelfEmail" /\ last'.outcome = "success"
            /\ \E i \in 1..Len(requests) :
                  /\ requests[i].live
                  /\ requests[i].kind = "change"
                  /\ requests' = SubSeq(requests, 1, i - 1)
                                    \o SubSeq(requests, i + 1, Len(requests)))
           => sendEmailVerificationCodeTimeout' = 0
        /\ (last'.op = "onSendEmailVerificationCode"
            \/ Len(SelectSeq(requests', LAMBDA r : r.kind = "send"))
                  > Len(SelectSeq(requests, LAMBDA r : r.kind = "send")))
           => sendEmailVerificationCodeTimeout = 0
        /\ (securityMounted /\ sendEmailVerificationCodeTimeout = 0)
           => ENABLED (\E emailInvalid \in BOOLEAN :
                          OnSendEmailVerificationCode(emailInvalid)) ]_vars

\* A code was sent a moment ago: the counter has been ticked down from 61
\* to 60 and no other code has been asked for.
C34_Witness ==
    /\ last.op = "tick"
    /\ securityMounted
    /\ sendEmailVerificationCodeTimeout = 60
    /\ ~sendEmailVerificationCodePending
    /\ requests = <<>>

C36_FallbackToFirstAllowed ==
    [][ last'.op = "languageEffect"
        => /\ mounted'
           /\ IF /\ allowedLanguages # <<>>
                 /\ \/ submissionContent.language = ""
                    \/ \A i \in 1..Len(allowedLanguages) :
                          allowedLanguages[i] # submissionContent.language
              THEN /\ submissionContent'.language = allowedLanguages[1]
                   /\ submissionContent'.compileAndRunOptions =
                         <<"preferred", allowedLanguages[1]>>
              ELSE submissionContent' = submissionContent ]_vars

====
